---- MODULE Spec2Model ----
(***************************************************************************)
(* Model of the notebooklm backend: the in-memory source registry          *)
(* (globalSourcesContext), the Qdrant collection "personal-notebooklm",    *)
(* and the express handlers that ingest, remove, clear and chat.           *)
(*                                                                         *)
(* Two server files are modelled, chosen once at start-up:                 *)
(*   "index"      src/index.js                                             *)
(*   "optimized"  the server file in src/unnamed/part_000 (lines 156-426)  *)
(*                                                                         *)
(* A handler runs from one await to the next in one step.  An await on the *)
(* vector store is the store processing the call (Qdrant...) and then the  *)
(* handler resuming with the result; where the continuation neither reads  *)
(* nor writes the registry it runs in the store's step (Resumed), else it  *)
(* is a step of its own (Resume..., ClearAfter...).  Calls to OpenAI and   *)
(* to the document loaders touch no shared state and are one step each.    *)
(***************************************************************************)
EXTENDS Integers, Sequences, FiniteSets, TLC

\* ---------------------------------------------------------------- bounds
MaxRequests == 3
MaxPages == 1
MaxClock == 1
MaxRand == 0
MaxStale == 2
MaxFragments == 6
MaxText == 203

\* ------------------------------------------------------ program constants
EmbedDim == 3072
ClearDim == 1536
EnsureDim == 3072
StoreDim == 3072
TopK == 5
ExcerptCap == 200

Servers == {"index", "optimized"}
Slots == {1, 2}

VARIABLES server, apiKey, globalSourcesContext, collection, clock, issued, h, resp,
          log

vars == <<server, apiKey, globalSourcesContext, collection, clock, issued, h, resp,
          log>>

\* ------------------------------------------------------------ data helpers
Min(a, b) == IF a < b THEN a ELSE b

NoCollection == [exists |-> FALSE, size |-> 0, distance |-> "none", points |-> {}]

NewCollection(size) ==
    [exists |-> TRUE, size |-> size, distance |-> "Cosine", points |-> {}]

\* Request inputs.
Titles == {"", "T"}
Contents == {<<>>, <<"s", "k", "y">>}
Urls == {"", "http://u"}
Messages == {"", "q"}
PageText == <<"p">>

RECURSIVE JoinPages(_)
JoinPages(n) ==
    IF n = 0 THEN <<>>
    ELSE IF n = 1 THEN PageText
    ELSE JoinPages(n - 1) \o <<"\n", "\n">> \o PageText

\* A variant that keeps the whole text.
ExcerptWhole(content) == content \o <<".", ".", ".">>

\* content.substring(0, 200) + "..."
Excerpt(content) ==
    SubSeq(content, 1, Min(Len(content), ExcerptCap)) \o <<".", ".", ".">>

\* `source_${Date.now()}_${Math.random()...}`
SourceId(now, r) == <<"source", now, r>>

NoId == <<"source", -1, -1>>

\* The record updateGlobalContext / storeEmbeddings pushes.  req is a ghost
\* field: the number of the request that produced the entry.
SourceInfo(now, r, type, title, url, content, req) ==
    LET base == [id |-> SourceId(now, r), type |-> type, title |-> title,
                 content |-> Excerpt(content), req |-> req]
    IN  IF url # "" THEN base @@ [url |-> url] ELSE base

\* Idle handler slot.  Besides the handler's locals (kind, pc, the request's
\* inputs, the call in flight and its result) and its answer (status, err,
\* total, chunks), the record carries ghost fields used to state properties:
\*   rid      number of the request
\*   listed   the sources the system prompt listed
\*   context  the fragments the system prompt carried
\*   nsrc     the number of sources listed when the chat request arrived
\*   size     the length of the text the request ingests
\*   invalid  a required field of the request is missing or empty
\*   ext      the external calls made so far: none (0), the document
\*            loader only (1), an embedding, store or generation call (2)
\*   stage    how many of chat's calls have succeeded: the query's
\*            embedding (1), the retrieval (2), the generation (3)
\*   tmp      the uploaded temporary file is still on disk
\*   removed  req of the entry a remove spliced out (0: none)
\*   down     a call of this request found the store unreachable
\*   wfail    a deleteCollection or createCollection of this request failed
\*   changed  this request has modified the registry
\*   calls, snap   used by the caller of ensureCollection (SpecEnsure)
Idle ==
    [kind |-> "none", pc |-> "idle", rid |-> 0, title |-> "", text |-> <<>>,
     url |-> "", file |-> FALSE, pages |-> 0, target |-> NoId,
     call |-> "none", arg |-> 0, ret |-> "none", seen |-> FALSE,
     after |-> "none", err |-> "", status |-> 0, total |-> -1,
     chunks |-> <<>>, listed |-> <<>>, context |-> <<>>, tmp |-> FALSE,
     calls |-> 0, nsrc |-> -1, reply |-> "", stage |-> 0,
     invalid |-> FALSE, ext |-> 0, size |-> 0,
     snap |-> NoCollection, removed |-> 0, down |-> FALSE, wfail |-> FALSE,
     changed |-> FALSE]


\* ------------------------------------------------------------- error texts
KeyMsg == "OPENAI_API_KEY environment variable is not set"
KeyNotConfigured == "OpenAI API key not configured"
FetchFailed == "fetch failed"
CannotConnect == "Cannot connect to Qdrant"
NoExtract == "Could not extract content from URL"
QuotaMsg == "429 You exceeded your current quota"
NoResponse == "Failed to generate chat response"
InternalError == "Internal server error"
\* A rejection whose value has no message property (err.message is
\* undefined), and what reading a property of undefined throws.
NoMessage == "<no message>"
TypeErrorMsg == "Cannot read properties of undefined (reading 'includes')"

\* What a failing Qdrant call throws when the store cannot be reached.
StoreDown == {FetchFailed}
\* What a failing OpenAI call throws.
OpenAIErrs == {QuotaMsg, "500 upstream error", NoMessage}
LoaderErrs == {"load failed"}
\* What fs.unlinkSync throws when the temporary file cannot be removed.
UnlinkErrs == {"ENOENT: no such file or directory, unlink"}

\* error.message.includes("fetch failed") || error.message.includes("ENOTFOUND")
MentionsFetch(e) == e = FetchFailed
\* err.message.includes("OPENAI_API_KEY")
MentionsKey(e) == e = KeyMsg
\* err.message.includes("Qdrant") || err.message.includes("vector")
MentionsQdrant(e) == e = CannotConnect
\* err.message.includes("rate limit") || err.message.includes("quota")
MentionsRate(e) == e = QuotaMsg

\* ---------------------------------------------------------- slot helpers
IsIngest(k) == k \in {"text", "url", "pdf"}

\* res.status(st).json(...): the handler is finished.
Respond(r, st, e) ==
    [r EXCEPT !.pc = "done", !.status = st, !.err = e, !.call = "none",
              !.ret = "none", !.arg = 0, !.seen = FALSE, !.after = "none",
              !.text = <<>>, !.pages = 0, !.file = FALSE]

\* await qdrantClient.<call>(...): the call is in flight.
Issue(r, pc, call, arg) ==
    [r EXCEPT !.pc = pc, !.call = call, !.arg = arg, !.ret = "pending",
              !.ext = 2]

\* await on OpenAI or on a document loader.
Wait(r, pc) ==
    [r EXCEPT !.pc = pc, !.call = "none", !.ret = "none",
              !.ext = IF pc = "loading" /\ r.ext < 2 THEN 1 ELSE 2]

\* The store answered the call in flight.
Answer(r, ret, e) ==
    [r EXCEPT !.ret = ret, !.err = e,
              !.wfail = @ \/ (ret = "err" /\ r.call \in {"deleteCollection",
                                                       "createCollection"})]

Fresh(kind, rid) == [Idle EXCEPT !.kind = kind, !.rid = rid]

\* Handlers are interchangeable: a request takes the first free slot.
Free(s) == h[s].pc = "idle"

CanStart(s) ==
    /\ issued < MaxRequests
    /\ Free(s)
    /\ \A t \in Slots : t < s => ~Free(t)

\* The handler has ended: it sent its answer ("done"), or an error left it
\* before any answer was sent ("hung": the client is left waiting).
Ended(r) == r.pc \in {"done", "hung"}

\* An error thrown inside the route's catch block: the async handler
\* rejects and nothing is sent.
Hang(r, e) == [Respond(r, 0, e) EXCEPT !.pc = "hung"]

\* log is a history variable, kept only where a property counts requests
\* (on): the sources in the registry at the start (base, by req), those of
\* the ingestions answered 200 (added), the entries the removes answered
\* 200 spliced out (removed), and whether an ingestion or a remove has
\* ended otherwise (failed); the requests in the order in which the store
\* completed their writes (writes) and in the order in which their sources
\* were appended to the registry (appends).
LogOff ==
    [on |-> FALSE, base |-> {}, added |-> {}, removed |-> {}, failed |-> FALSE,
     writes |-> <<>>, appends |-> <<>>]

Note(l, q) ==
    IF ~l.on \/ ~Ended(q) \/ ~(IsIngest(q.kind) \/ q.kind = "remove") THEN l
    ELSE IF q.pc # "done" \/ q.status # 200 THEN [l EXCEPT !.failed = TRUE]
    ELSE IF q.kind = "remove" THEN [l EXCEPT !.removed = @ \cup {q.removed}]
    ELSE [l EXCEPT !.added = @ \cup {q.rid}]

Order(l, rid, reg, col) ==
    IF ~l.on THEN l
    ELSE [l EXCEPT
            !.writes = IF col.points \ collection.points # {}
                       THEN Append(@, rid) ELSE @,
            !.appends = IF Len(reg) > Len(globalSourcesContext)
                        THEN Append(@, rid) ELSE @]

\* One step of handler s: its new slot, the registry and the collection.
\* changed is a ghost flag: this request has modified the registry.
\* resp is what the step sent to the client: the ended handler's record
\* when the step ended the request, Idle when it did not.
Commit(s, r, reg, col) ==
    LET q == [r EXCEPT !.changed = r.changed \/ reg # globalSourcesContext]
    IN  /\ h' = [h EXCEPT ![s] = IF Ended(q) THEN Idle ELSE q]
        /\ resp' = IF Ended(q) THEN q ELSE Idle
        /\ log' = Note(Order(log, r.rid, reg, col), q)
    /\ globalSourcesContext' = reg
    /\ collection' = col
    /\ UNCHANGED <<server, apiKey>>

\* A request arrives and its handler runs to its first await (or answers).
\* issued counts the requests that get past validation: one that is turned
\* away at once leaves nothing behind but its answer.
Begin(s, r, reg) ==
    /\ Commit(s, r, reg, collection)
    /\ issued' = IF r.pc = "done" /\ reg = globalSourcesContext
                 THEN issued ELSE issued + 1
    /\ UNCHANGED clock

\* A step that touches neither the registry nor the collection.
Continue(s, r) ==
    /\ Commit(s, r, globalSourcesContext, collection)
    /\ UNCHANGED <<issued, clock>>

\* The Qdrant server processes the call of handler s.
Store(s, r, col) ==
    /\ Commit(s, r, globalSourcesContext, col)
    /\ UNCHANGED <<issued, clock>>

\* ------------------------------------------------------------- ingestion
\* The catch block of createAndStoreEmbeddings (index.js only) rewrites a
\* connection failure; every ingestion handler then answers 500.
IngestCatch(r, e) ==
    IF server = "index" /\ r.kind \in {"text", "url"}
       /\ r.pc \in {"test", "embedding", "ensure", "sizing", "create", "upsert"}
    THEN IF e = NoMessage THEN TypeErrorMsg
         ELSE IF MentionsFetch(e) THEN CannotConnect
         ELSE e
    ELSE e

IngestFail(r, e) == Respond(r, 500, IngestCatch(r, e))

\* Documents handed to QdrantVectorStore.fromDocuments.
NVectors(r) == IF server = "index" /\ r.kind = "pdf" THEN r.pages ELSE 1

\* Payload metadata of the points: the metadata argument, or for the pages
\* of index.js's embed-pdf what PDFLoader attached (no type, no title).
PointsOf(r) ==
    LET own == ~(server = "index" /\ r.kind = "pdf")
    IN  {[req |-> r.rid, page |-> i,
          type |-> IF own THEN r.kind ELSE "",
          title |-> IF own THEN r.title ELSE ""] : i \in 1..NVectors(r)}

\* A variant that assigns the registry instead of pushing to it.
updateGlobalContextAssign(reg, now, rnd, r) ==
    <<SourceInfo(now, rnd, r.kind, r.title, r.url, r.text, r.rid)>>

\* A variant that puts the new source in front (unshift).
updateGlobalContextUnshift(reg, now, rnd, r) ==
    <<SourceInfo(now, rnd, r.kind, r.title, r.url, r.text, r.rid)>> \o reg

\* updateGlobalContext (index.js) / the tail of storeEmbeddings (optimized).
updateGlobalContext(reg, now, rnd, r) ==
    Append(reg, SourceInfo(now, rnd, r.kind, r.title, r.url, r.text, r.rid))

\* A variant that does not look for the credential.
StoreEmbeddingsEntryNoKey(r) ==
    IF server = "index" /\ r.kind # "pdf"
    THEN Issue(r, "test", "getCollections", 0)
    ELSE Wait(r, "embedding")

\* createAndStoreEmbeddings / storeEmbeddings up to the first await.
StoreEmbeddingsEntry(r) ==
    IF ~apiKey THEN IngestFail(r, KeyMsg)
    ELSE IF server = "index" /\ r.kind # "pdf"
         THEN Issue(r, "test", "getCollections", 0)
         ELSE Wait(r, "embedding")

\* A variant that stores the text without looking at the fields.
StartTextUnchecked(s) ==
    /\ CanStart(s)
    /\ \E title \in Titles, content \in Contents :
         LET r == [Fresh("text", issued + 1) EXCEPT
                      !.title = title, !.text = content,
                      !.size = Len(content),
                      !.invalid = (title = "" \/ content = <<>>)]
         IN  Begin(s, StoreEmbeddingsEntry(r), globalSourcesContext)

\* POST /api/embed-text
StartText(s) ==
    /\ CanStart(s)
    /\ \E title \in Titles, content \in Contents :
         LET r == [Fresh("text", issued + 1) EXCEPT
                      !.title = title, !.text = content,
                      !.size = Len(content),
                      !.invalid = (title = "" \/ content = <<>>)]
         IN  Begin(s, IF title = "" \/ content = <<>>
                      THEN Respond(r, 400, "Title and content are required")
                      ELSE StoreEmbeddingsEntry(r),
                   globalSourcesContext)

\* POST /api/embed-url
StartUrl(s) ==
    /\ CanStart(s)
    /\ \E title \in Titles, url \in Urls :
         LET r == [Fresh("url", issued + 1) EXCEPT
                      !.title = title, !.url = url,
                      !.invalid = (title = "" \/ url = "")]
         IN  Begin(s, IF title = "" \/ url = ""
                      THEN Respond(r, 400, "Title and URL are required")
                      ELSE Wait(r, "loading"),
                   globalSourcesContext)

\* POST /api/embed-pdf
StartPdf(s) ==
    /\ CanStart(s)
    /\ \E file \in BOOLEAN :
         LET r == [Fresh("pdf", issued + 1) EXCEPT
                      !.title = "T", !.file = file, !.tmp = file,
                      !.invalid = ~file]
         IN  Begin(s, IF ~file
                      THEN Respond(r, 400, "No PDF uploaded")
                      ELSE Wait(r, "loading"),
                   globalSourcesContext)

\* What follows the registry append: the 200 answer; embed-pdf first unlinks
\* its temporary file, and a throwing unlinkSync lands in the route's catch.
Finish(r) == Respond([r EXCEPT !.tmp = FALSE], 200, "")

Finishes(r) ==
    {Finish(r)} \cup
    (IF r.kind = "pdf" THEN {Respond(r, 500, e) : e \in UnlinkErrs} ELSE {})

\* Date.now() never runs backwards; Math.random() is any of its values.
Register(s, r) ==
    /\ \E now \in clock..MaxClock, rnd \in 0..MaxRand, q \in Finishes(r) :
         /\ clock' = now
         /\ Commit(s, q,
                   updateGlobalContext(globalSourcesContext, now, rnd, r),
                   collection)
    /\ UNCHANGED issued

\* PDFLoader.load() of embed-pdf, and what runs up to the next await.
LoadPdf(s) ==
    /\ h[s].pc = "loading" /\ h[s].kind = "pdf"
    /\ \/ \E e \in LoaderErrs : Continue(s, IngestFail(h[s], e))
       \/ \E n \in 0..MaxPages :
            LET r == [h[s] EXCEPT !.pages = n, !.text = JoinPages(n),
                                  !.size = Len(JoinPages(n))]
            IN  IF server = "optimized" THEN Continue(s, StoreEmbeddingsEntry(r))
                ELSE IF ~apiKey THEN Continue(s, IngestFail(r, KeyMsg))
                \* fromDocuments([]) embeds nothing and writes nothing
                ELSE IF n = 0 THEN Register(s, r)
                ELSE Continue(s, Wait(r, "embedding"))

\* CheerioWebBaseLoader.load() of embed-url, and what runs up to the next await.
LoadUrl(s) ==
    /\ h[s].pc = "loading" /\ h[s].kind = "url"
    /\ \/ \E e \in LoaderErrs : Continue(s, IngestFail(h[s], e))
       \/ \E n \in 0..MaxPages :
            LET r == [h[s] EXCEPT !.pages = n, !.text = JoinPages(n),
                                  !.size = Len(JoinPages(n))]
            IN  Continue(s, IF n = 0 THEN IngestFail(r, NoExtract)
                            ELSE StoreEmbeddingsEntry(r))

\* ------------------------------------------------------------------ chat
\* The catch block of POST /api/chat.
ChatStatus(e) ==
    IF server = "index" /\ MentionsKey(e) THEN 500
    ELSE IF MentionsQdrant(e) THEN 503
    ELSE IF MentionsRate(e) THEN 429
    ELSE 500

\* err.message || "Internal server error"
ChatErrorText(e) == IF e = "" THEN InternalError ELSE e

\* The tests of the catch block read err.message.includes: with no message
\* they throw inside the catch block.
ChatFail(r, e) ==
    LET q == [r EXCEPT !.chunks = <<>>, !.listed = <<>>]
    IN  IF e = NoMessage THEN Hang(q, e)
        ELSE Respond(q, ChatStatus(e), ChatErrorText(e))

Fail(r, e) == IF r.kind = "chat" THEN ChatFail(r, e) ELSE IngestFail(r, e)

\* source.type.toUpperCase()
toUpperCase(type) ==
    CASE type = "text" -> "TEXT"
      [] type = "url" -> "URL"
      [] type = "pdf" -> "PDF"
      [] OTHER -> type

\* generateSystemPrompt: the lines of sourcesSummary, `- ${TYPE}: ${title}`
\* for each element of the registry, in the order of the array.
generateSystemPrompt(reg) ==
    [i \in 1..Len(reg) |-> <<toUpperCase(reg[i].type), reg[i].title>>]

\* JSON.stringify(relevantChunks, null, 2): the fragments' text and metadata,
\* one element per fragment, in the order of the array.
Stringify(p) == <<p.req, p.page, p.type, p.title>>

PromptContext(relevantChunks) ==
    [i \in 1..Len(relevantChunks) |-> Stringify(relevantChunks[i])]

\* A retriever asking for twice as many neighbours.
asRetrieverTen(r) == Issue(r, "search", "search", 2 * TopK)

\* vectorStore.asRetriever({ k: 5 }).invoke(userQuery): the search it sends.
asRetriever(r) == Issue(r, "search", "search", TopK)

\* POST /api/chat
StartChat(s) ==
    /\ CanStart(s)
    /\ \E message \in Messages :
         LET r == [Fresh("chat", issued + 1) EXCEPT
                      !.text = <<message>>, !.nsrc = Len(globalSourcesContext),
                      !.invalid = (message = "")]
         IN  Begin(s, IF message = "" THEN Respond(r, 400, "Message is required")
                      ELSE IF ~apiKey
                      THEN Respond(r, 500, IF server = "index" THEN KeyMsg
                                           ELSE KeyNotConfigured)
                      \* QdrantVectorStore.fromExistingCollection
                      ELSE [Issue(r, "ensure", "getCollections", 0)
                               EXCEPT !.after = "embedq"],
                   globalSourcesContext)

\* ------------------------------------------- QdrantVectorStore (library)
\* ensureCollection of the vector store class found the collection, or
\* has created it: go on with what called it.
AfterEnsure(r) ==
    CASE r.after = "upsert" -> Issue(r, "upsert", "upsert", NVectors(r))
      [] r.after = "embedq" -> Wait(r, "embedq")
      [] r.after = "search" -> asRetriever(r)

\* getCollections answered inside the library's ensureCollection.
ResumeEnsure(r) ==
    IF r.ret = "err" THEN Fail(r, r.err)
    ELSE IF r.seen THEN AfterEnsure(r)
    \* no collectionConfig: the size is that of embedQuery("test")
    ELSE IF server = "index" \/ r.kind = "chat" THEN Wait(r, "sizing")
    ELSE Issue(r, "create", "createCollection", StoreDim)

\* createCollection answered inside the library's ensureCollection.
ResumeCreate(r) == IF r.ret = "err" THEN Fail(r, r.err) ELSE AfterEnsure(r)

\* await qdrantClient.getCollections() of createAndStoreEmbeddings answered.
ResumeTest(r) == IF r.ret = "err" THEN Fail(r, r.err) ELSE Wait(r, "embedding")

\* The handler's continuation once the store has answered.  A continuation
\* that neither reads nor writes the registry runs in the same step as the
\* store's answer (nothing another handler does in between can change it);
\* the others are steps of their own (ResumeUpsert, ResumeSearch, the steps
\* of clear and of ensureCollection).
Resumed(r) ==
    CASE r.pc = "test" -> ResumeTest(r)
      [] r.pc = "ensure" -> ResumeEnsure(r)
      [] r.pc = "create" -> ResumeCreate(r)
      [] OTHER -> r

\* A variant that appends the source whatever the upsert answered.
ResumeUpsertEager(s) ==
    /\ h[s].pc = "upsert" /\ h[s].ret \in {"ok", "err"}
    /\ IF h[s].ret = "err"
       THEN /\ \E now \in clock..MaxClock, rnd \in 0..MaxRand :
                 /\ clock' = now
                 /\ Commit(s, Fail(h[s], h[s].err),
                           updateGlobalContext(globalSourcesContext, now, rnd, h[s]),
                           collection)
            /\ UNCHANGED issued
       ELSE Register(s, h[s])

\* fromDocuments resolved or rejected: the registry append and the answer.
ResumeUpsert(s) ==
    /\ h[s].pc = "upsert" /\ h[s].ret \in {"ok", "err"}
    /\ IF h[s].ret = "err" THEN Continue(s, Fail(h[s], h[s].err))
       ELSE Register(s, h[s])

\* A variant that lists no more sources than the registry held when the
\* request arrived.
ResumeSearchStale(s) ==
    /\ h[s].pc = "search" /\ h[s].ret \in {"ok", "err"}
    /\ Continue(s, IF h[s].ret = "err" THEN Fail(h[s], h[s].err)
                   ELSE Wait([h[s] EXCEPT
                                !.listed = SubSeq(generateSystemPrompt(globalSourcesContext),
                                                  1, Min(h[s].nsrc, Len(globalSourcesContext))),
                                !.context = PromptContext(h[s].chunks),
                                !.stage = 2],
                             "generating"))

\* The retriever resolved or rejected: the prompt is assembled.
ResumeSearch(s) ==
    /\ h[s].pc = "search" /\ h[s].ret \in {"ok", "err"}
    /\ Continue(s, IF h[s].ret = "err" THEN Fail(h[s], h[s].err)
                   ELSE Wait([h[s] EXCEPT
                                !.listed = generateSystemPrompt(globalSourcesContext),
                                !.context = PromptContext(h[s].chunks),
                                !.stage = 2],
                             "generating"))

\* ---------------------------------------------------------------- OpenAI
\* A variant that appends the source before the vectors are sent to the
\* store.
EmbedDocumentsPushFirst(s) ==
    /\ h[s].pc = "embedding"
    /\ \/ \E e \in OpenAIErrs : Continue(s, Fail(h[s], e))
       \/ /\ Commit(s, [Issue(h[s], "ensure", "getCollections", 0)
                           EXCEPT !.after = "upsert"],
                    updateGlobalContext(globalSourcesContext, clock, 0, h[s]),
                    collection)
          /\ UNCHANGED <<issued, clock>>

\* embeddings.embedDocuments inside fromDocuments.
EmbedDocuments(s) ==
    /\ h[s].pc = "embedding"
    /\ \/ \E e \in OpenAIErrs : Continue(s, Fail(h[s], e))
       \/ Continue(s, [Issue(h[s], "ensure", "getCollections", 0)
                          EXCEPT !.after = "upsert"])

\* embeddings.embedQuery("test") sizing a collection about to be created.
EmbedTest(s) ==
    /\ h[s].pc = "sizing"
    /\ \/ \E e \in OpenAIErrs : Continue(s, Fail(h[s], e))
       \/ Continue(s, Issue(h[s], "create", "createCollection", EmbedDim))

\* embeddings.embedQuery(userQuery) inside the retriever.
EmbedQuery(s) ==
    /\ h[s].pc = "embedq"
    /\ \/ \E e \in OpenAIErrs : Continue(s, Fail(h[s], e))
       \/ Continue(s, [Issue(h[s], "ensure", "getCollections", 0)
                          EXCEPT !.after = "search", !.stage = 1])

\* A variant that answers 200 with the retrieved sources when the
\* generation failed.
CompletionPartial(s) ==
    /\ h[s].pc = "generating"
    /\ \/ \E e \in OpenAIErrs : Continue(s, Respond(h[s], 200, ""))
       \/ \E text \in {"", "answer"} :
            LET r == [h[s] EXCEPT !.stage = 3]
            IN  Continue(s, IF text = "" THEN ChatFail(r, NoResponse)
                            ELSE Respond([r EXCEPT !.reply = text], 200, ""))

\* client.chat.completions.create, and the answer of POST /api/chat:
\* 500 when response.text is empty, else 200 {response: text, sources}.
Completion(s) ==
    /\ h[s].pc = "generating"
    /\ \/ \E e \in OpenAIErrs : Continue(s, ChatFail(h[s], e))
       \/ \E text \in {"", "answer"} :
            LET r == [h[s] EXCEPT !.stage = 3]
            IN  Continue(s, IF text = "" THEN ChatFail(r, NoResponse)
                            ELSE Respond([r EXCEPT !.reply = text], 200, ""))

\* ------------------------------------------------- the Qdrant server
Pending(s, call) == h[s].call = call /\ h[s].ret = "pending"

\* The store cannot be reached: the call in flight rejects, nothing changes.
QdrantDown(s) ==
    /\ h[s].ret = "pending"
    /\ \E e \in StoreDown :
         Continue(s, Resumed([Answer(h[s], "err", e) EXCEPT !.down = TRUE]))

QdrantGetCollections(s) ==
    /\ Pending(s, "getCollections")
    /\ Continue(s, Resumed([Answer(h[s], "ok", "") EXCEPT !.seen = collection.exists]))

QdrantGetCollection(s) ==
    /\ Pending(s, "getCollection")
    /\ Continue(s, IF collection.exists THEN Answer(h[s], "ok", "")
                   ELSE Answer(h[s], "err", "Not Found"))

QdrantCreateCollection(s) ==
    /\ Pending(s, "createCollection")
    /\ IF collection.exists
       THEN Store(s, Resumed(Answer(h[s], "err", "Conflict")), collection)
       ELSE Store(s, Resumed(Answer(h[s], "ok", "")), NewCollection(h[s].arg))

QdrantDeleteCollection(s) ==
    /\ Pending(s, "deleteCollection")
    /\ Store(s, Answer(h[s], "ok", ""), NoCollection)

\* Vectors of the embedding model against the collection's fixed size.
Accepts(col) ==
    IF ~col.exists THEN "Not Found"
    ELSE IF col.size # EmbedDim THEN "Bad Request"
    ELSE ""

QdrantUpsert(s) ==
    /\ Pending(s, "upsert")
    /\ IF Accepts(collection) # ""
       THEN Store(s, Answer(h[s], "err", Accepts(collection)), collection)
       ELSE Store(s, Answer(h[s], "ok", ""),
                  [collection EXCEPT !.points = @ \cup PointsOf(h[s])])

\* The rankings of at most k of the points of S.
RECURSIVE Rankings(_, _)
Rankings(S, k) ==
    IF k = 0 \/ S = {} THEN {<<>>}
    ELSE UNION {{<<p>> \o t : t \in Rankings(S \ {p}, k - 1)} : p \in S}

QdrantSearch(s) ==
    /\ Pending(s, "search")
    /\ IF Accepts(collection) # ""
       THEN Continue(s, Answer(h[s], "err", Accepts(collection)))
       ELSE \E found \in Rankings(collection.points, h[s].arg) :
              Continue(s, [Answer(h[s], "ok", "") EXCEPT !.chunks = found])

\* --------------------------------------------- ensureCollection (optimized)
\* A variant that creates the collection without looking for it first.
ensureCollectionAlwaysCreate(r) == Issue(r, "make", "createCollection", EnsureDim)

\* await qdrantClient.getCollection("personal-notebooklm")
ensureCollection(r) == Issue(r, "get", "getCollection", 0)

\* catch { await qdrantClient.createCollection(..., size 3072, Cosine) }
ensureCollectionCatch(r) == Issue(r, "make", "createCollection", EnsureDim)

\* ensureCollection resolved: clear answers; a caller that calls it twice
\* in a row (kind "ensure") notes the collection and calls again.
EnsureReturned(r) ==
    IF r.kind = "clear" THEN Respond([r EXCEPT !.total = 0], 200, "")
    ELSE IF r.calls = 0
         THEN ensureCollection([r EXCEPT !.calls = 1, !.snap = collection,
                                         !.down = FALSE])
         ELSE Respond([r EXCEPT !.calls = 2], 200, "")

ResumeGet(s) ==
    /\ h[s].pc = "get" /\ h[s].ret \in {"ok", "err"}
    /\ Continue(s, IF h[s].ret = "ok" THEN EnsureReturned(h[s])
                   ELSE ensureCollectionCatch(h[s]))

ResumeMake(s) ==
    /\ h[s].pc = "make" /\ h[s].ret \in {"ok", "err"}
    /\ Continue(s, IF h[s].ret = "ok" THEN EnsureReturned(h[s])
                   ELSE Respond(h[s], 500, h[s].err))

\* ------------------------------------------------ DELETE /api/sources/clear
StartClear(s) ==
    /\ CanStart(s)
    /\ Begin(s, Issue(Fresh("clear", issued + 1), "delete", "deleteCollection", 0),
             <<>>)

\* deleteCollection answered.  index.js: the inner catch swallows a failure
\* and the handler answers 200; optimized: a failure answers 500.
ClearAfterDelete(s) ==
    /\ h[s].pc = "delete" /\ h[s].ret \in {"ok", "err"}
    /\ LET r == h[s]
       IN  Continue(s,
             IF server = "index"
             THEN IF r.ret = "err" THEN Respond([r EXCEPT !.total = 0], 200, r.err)
                  ELSE Issue(r, "recreate", "createCollection", ClearDim)
             ELSE IF r.ret = "err" THEN Respond(r, 500, r.err)
                  ELSE ensureCollection(r))

\* index.js: createCollection answered; 200 whatever the outcome.
ClearAfterRecreate(s) ==
    /\ h[s].pc = "recreate" /\ h[s].ret \in {"ok", "err"}
    /\ Continue(s, Respond([h[s] EXCEPT !.total = 0], 200, h[s].err))

\* -------------------------------------------------- DELETE /api/sources/:id
\* globalSourcesContext.findIndex(source => source.id === id); 0 for -1.
findIndex(reg, id) ==
    IF \E i \in 1..Len(reg) : reg[i].id = id
    THEN CHOOSE i \in 1..Len(reg) :
            reg[i].id = id /\ \A j \in 1..(i - 1) : reg[j].id # id
    ELSE 0

\* A variant that drops the last entry whatever the index (pop).
spliceLast(reg, i) == SubSeq(reg, 1, Len(reg) - 1)

\* globalSourcesContext.splice(i, 1)
splice(reg, i) == SubSeq(reg, 1, i - 1) \o SubSeq(reg, i + 1, Len(reg))

\* A variant that also deletes the removed source's points from the store.
StartRemovePurge(s) ==
    /\ CanStart(s)
    /\ \E id \in {globalSourcesContext[i].id : i \in 1..Len(globalSourcesContext)}
                   \cup {NoId} :
         LET r == [Fresh("remove", issued + 1) EXCEPT !.target = id]
             i == findIndex(globalSourcesContext, id)
         IN  IF i = 0
             THEN Begin(s, Respond(r, 404, "Source not found"), globalSourcesContext)
             ELSE /\ Commit(s, Respond([r EXCEPT
                                          !.removed = globalSourcesContext[i].req,
                                          !.total = Len(splice(globalSourcesContext, i))],
                                       200, ""),
                            splice(globalSourcesContext, i),
                            [collection EXCEPT !.points =
                               {p \in @ : p.req # globalSourcesContext[i].req}])
                  /\ issued' = issued + 1
                  /\ UNCHANGED clock

\* DELETE /api/sources/:id
StartRemove(s) ==
    /\ CanStart(s)
    /\ \E id \in {globalSourcesContext[i].id : i \in 1..Len(globalSourcesContext)}
                   \cup {NoId} :
         LET r == [Fresh("remove", issued + 1) EXCEPT !.target = id]
             i == findIndex(globalSourcesContext, id)
         IN  IF i = 0
             THEN Begin(s, Respond(r, 404, "Source not found"), globalSourcesContext)
             ELSE Begin(s, Respond([r EXCEPT
                                      !.removed = globalSourcesContext[i].req,
                                      !.total = Len(splice(globalSourcesContext, i))],
                                   200, ""),
                        splice(globalSourcesContext, i))

Init ==
    /\ server \in Servers
    /\ apiKey \in BOOLEAN
    /\ globalSourcesContext = <<>>
    /\ collection = NoCollection
    /\ clock = 0
    /\ issued = 0
    /\ h = [s \in Slots |-> Idle]
    /\ resp = Idle
    /\ log = LogOff

Next ==
    \E s \in Slots :
         \/ StartText(s) \/ StartUrl(s) \/ StartPdf(s)
         \/ StartChat(s) \/ StartClear(s) \/ StartRemove(s)
         \/ LoadPdf(s) \/ LoadUrl(s)
         \/ EmbedDocuments(s) \/ EmbedTest(s) \/ EmbedQuery(s) \/ Completion(s)
         \/ QdrantDown(s) \/ QdrantGetCollections(s) \/ QdrantGetCollection(s)
         \/ QdrantCreateCollection(s) \/ QdrantDeleteCollection(s)
         \/ QdrantUpsert(s) \/ QdrantSearch(s)
         \/ ResumeUpsert(s) \/ ResumeSearch(s)
         \/ ClearAfterDelete(s) \/ ClearAfterRecreate(s)
         \/ ResumeGet(s) \/ ResumeMake(s)

Spec == Init /\ [][Next]_vars

\* ------------------------------------------------------------ SpecEnsure
\* ensureCollection on its own: one caller at a time awaits it twice in a
\* row, against a store that holds no collection or one left by an earlier
\* run of either server.
StalePoints == {[req |-> 0, page |-> i, type |-> "text", title |-> "T"] : i \in 1..MaxStale}

InitEnsure ==
    /\ server = "optimized"
    /\ apiKey = TRUE
    /\ globalSourcesContext = <<>>
    /\ collection \in {NoCollection} \cup
          {[NewCollection(size) EXCEPT !.points = P] :
              size \in {EnsureDim, ClearDim}, P \in SUBSET StalePoints}
    /\ clock = 0
    /\ issued = 0
    /\ h = [s \in Slots |-> Idle]
    /\ resp = Idle
    /\ log = LogOff

\* await ensureCollection(); await ensureCollection();
CallEnsure(s) ==
    /\ CanStart(s)
    /\ \A t \in Slots : Free(t)
    /\ Begin(s, ensureCollection(Fresh("ensure", issued + 1)), globalSourcesContext)

NextEnsure ==
    \E s \in Slots :
         \/ CallEnsure(s)
         \/ QdrantDown(s) \/ QdrantGetCollection(s) \/ QdrantCreateCollection(s)
         \/ ResumeGet(s) \/ ResumeMake(s)

SpecEnsure == InitEnsure /\ [][NextEnsure]_vars

\* -------------------------------------------------------------- SpecChat
\* answer on its own: one chat request at a time against a collection that
\* holds from no fragment to more fragments than the retriever asks for.
ChatPoints(n) == {[req |-> 0, page |-> i, type |-> "text", title |-> "T"] : i \in 1..n}

InitChat ==
    /\ server \in Servers
    /\ apiKey = TRUE
    /\ globalSourcesContext = <<>>
    /\ collection \in {[NewCollection(EmbedDim) EXCEPT !.points = ChatPoints(n)] :
                          n \in 0..MaxFragments}
    /\ clock = 0
    /\ issued = 0
    /\ h = [s \in Slots |-> Idle]
    /\ resp = Idle
    /\ log = LogOff

ChatAlone(s) == (\A t \in Slots : Free(t)) /\ StartChat(s)

NextChat ==
    \E s \in Slots :
         \/ ChatAlone(s)
         \/ QdrantDown(s) \/ QdrantGetCollections(s) \/ QdrantSearch(s)
         \/ EmbedQuery(s) \/ ResumeSearch(s) \/ Completion(s)

SpecChat == InitChat /\ [][NextChat]_vars

\* ----------------------------------------------------------- SpecExcerpt
\* The excerpt on its own: an embed-text request whose text has any length
\* up to and beyond the cap has been stored and is about to be registered.
LongText(n) == [i \in 1..n |-> IF i % 2 = 1 THEN "a" ELSE "b"]

Stored(n) ==
    Answer(Issue([Fresh("text", 1) EXCEPT !.title = "T", !.text = LongText(n),
                                          !.size = n],
                 "upsert", "upsert", 1),
           "ok", "")

InitExcerpt ==
    /\ server \in Servers
    /\ apiKey = TRUE
    /\ globalSourcesContext = <<>>
    /\ clock = 0
    /\ issued = 1
    /\ resp = Idle
    /\ log = LogOff
    /\ \E n \in 1..MaxText :
         /\ h = [s \in Slots |-> IF s = 1 THEN Stored(n) ELSE Idle]
         /\ collection = [NewCollection(EmbedDim) EXCEPT !.points = PointsOf(Stored(n))]

NextExcerpt == \E s \in Slots : ResumeUpsert(s)

SpecExcerpt == InitExcerpt /\ [][NextExcerpt]_vars

\* ======================================================== the claims
Reqs(reg) == {reg[i].req : i \in 1..Len(reg)}

\* The collection holds a vector of the content request rid sent.
HasVector(col, rid) == \E p \in col.points : p.req = rid

IngestAnswered(st) == IsIngest(resp.kind) /\ resp.status = st

\* C1: an ingestion request that answers 200 has appended exactly one
\* entry at the end of the registry, with the request's type and title and
\* a url exactly for a url source, and the collection then holds at least
\* one vector of that content.
C1_Ingest200AddsEntryAndVector ==
    [][(IsIngest(resp'.kind) /\ resp'.status = 200) =>
         /\ Len(globalSourcesContext') = Len(globalSourcesContext) + 1
         /\ SubSeq(globalSourcesContext', 1, Len(globalSourcesContext))
               = globalSourcesContext
         /\ LET e == globalSourcesContext'[Len(globalSourcesContext')]
            IN  /\ e.type = resp'.kind
                /\ e.title = resp'.title
                /\ ("url" \in DOMAIN e) <=> (resp'.kind = "url")
         /\ HasVector(collection', resp'.rid)]_vars

\* C2: an ingestion call that fails in the collection check, in the
\* embedding call or in the store upsert, or anywhere before them (it is
\* answered 500 with an error other than that of the temporary file's
\* removal), has added no entry to the registry: that request never
\* modified the list.
C2_FailedIngestLeavesRegistry ==
    (IsIngest(resp.kind) /\ resp.status = 500 /\ resp.err \notin UnlinkErrs) =>
        /\ ~resp.changed
        /\ resp.rid \notin Reqs(globalSourcesContext)

\* C2 witness: an ingestion answered 500 because the store or the embedding
\* service failed, while the registry holds another source.
C2_Witness ==
    /\ IngestAnswered(500)
    /\ resp.down \/ resp.err \in OpenAIErrs \/ resp.err = "Bad Request"
    /\ Len(globalSourcesContext) > 0

\* C3: in every reachable state every source of the registry has at least
\* one vector of its content in the collection.
C3_RegistryEntriesAreStored ==
    \A i \in 1..Len(globalSourcesContext) :
        HasVector(collection, globalSourcesContext[i].req)

\* C4: a remove of an id that is in the registry answers 200 and takes out
\* exactly one entry carrying that id, the entries before it and after it
\* keeping their places, and the list is one shorter; a remove of an id
\* that is not in the registry answers 404 and leaves the list unchanged.
C4_RemoveExactlyOne ==
    [][(resp'.kind = "remove") =>
         LET reg == globalSourcesContext
             new == globalSourcesContext'
             id == resp'.target
         IN  IF \E i \in 1..Len(reg) : reg[i].id = id
             THEN /\ resp'.status = 200
                  /\ Len(new) = Len(reg) - 1
                  /\ resp'.total = Len(reg) - 1
                  /\ \E i \in 1..Len(reg) :
                       /\ reg[i].id = id
                       /\ \A j \in 1..(i - 1) : new[j] = reg[j]
                       /\ \A j \in (i + 1)..Len(reg) : new[j - 1] = reg[j]
             ELSE /\ resp'.status = 404
                  /\ new = reg]_vars

\* C4 witness: a remove answered 200 that took out an entry other than the
\* first, another source staying in the list.
C4_Witness ==
    /\ resp.kind = "remove" /\ resp.status = 200
    /\ Len(globalSourcesContext) = 1
    /\ globalSourcesContext[1].req < resp.removed

\* C5: a remove leaves the collection as it was; the removed source is no
\* longer in the list nor in the prompt's source summary (one line per
\* listed source), while its vectors are still in the collection.
C5_RemoveKeepsVectors ==
    [][(resp'.kind = "remove") =>
         /\ collection' = collection
         /\ (resp'.status = 200) =>
              /\ resp'.removed \in Reqs(globalSourcesContext)
              /\ resp'.removed \notin Reqs(globalSourcesContext')
              /\ Len(generateSystemPrompt(globalSourcesContext'))
                    = Len(globalSourcesContext) - 1]_vars

\* C5 witness: a source has just been removed and its vectors are still in
\* the collection.
C5_Witness ==
    /\ resp.kind = "remove" /\ resp.status = 200
    /\ HasVector(collection, resp.removed)

\* C6: when a clear has completed (answered with totalSources 0, no call
\* to the store having failed during it) the registry is empty and the
\* collection exists, is empty and takes the vectors of the embedding
\* model, so that an ingest and an answer issued after it succeed.
C6_ClearLeavesUsableEmptyCollection ==
    (resp.kind = "clear" /\ resp.status = 200 /\ ~resp.wfail /\ ~resp.down) =>
        /\ Len(globalSourcesContext) = 0
        /\ collection.exists
        /\ collection.points = {}
        /\ Accepts(collection) = ""

\* C7: whenever the collection exists its distance metric is Cosine and its
\* dimensionality is that of the vectors the embedding model produces.
C7_FingerprintFixed ==
    collection.exists =>
        /\ collection.size = EmbedDim
        /\ collection.distance = "Cosine"

\* C8: a clear during which the delete or the recreate of the collection
\* failed is answered 500, never with the success body.
C8_ClearStoreFailureIs500 ==
    (resp.kind = "clear" /\ resp.wfail) => resp.status = 500

\* C9: a request to an ingestion or removal endpoint that is answered with
\* an error status has made no change to the registry.
C9_ErrorLeavesRegistry ==
    (resp.kind \in {"text", "url", "pdf", "remove", "clear"} /\ resp.status >= 400)
        => ~resp.changed

\* C10: ensureCollection awaited twice in a row, the store answering the
\* second call: the second call creates nothing and surfaces no error, the
\* collection after it is the collection after the first call; and a
\* collection that exists is never deleted or recreated by ensureCollection.
C10_SecondCallIsNoOp ==
    /\ \A s \in Slots :
         (h[s].kind = "ensure" /\ h[s].calls = 1 /\ ~h[s].down) =>
             /\ h[s].pc # "make"
             /\ collection = h[s].snap
    /\ (resp.kind = "ensure" /\ resp.pc = "done" /\ ~resp.down) =>
             /\ resp.status = 200
             /\ resp.calls = 2
             /\ collection.exists
             /\ collection = resp.snap

C10_EnsureCollectionIdempotent ==
    /\ []C10_SecondCallIsNoOp
    /\ [][collection.exists => collection' = collection]_vars

\* C10 witness: both calls returned, the first having created the
\* collection.
C10_Witness ==
    /\ resp.kind = "ensure" /\ resp.status = 200 /\ resp.calls = 2
    /\ collection = NewCollection(EnsureDim)

\* C11: answer is read-only: no step of a chat handler, whether the request
\* ends in success or in failure, changes the registry or the collection
\* (its existence, its size and metric, its points).
C11_ChatIsReadOnly ==
    [][\A s \in Slots :
         (h[s].kind = "chat" /\ h'[s] # h[s]) =>
             /\ globalSourcesContext' = globalSourcesContext
             /\ collection' = collection]_vars

\* C12: answer retrieves at most 5 fragments; the prompt carries them in
\* the order the store ranked them; and the sources of the 200 answer are
\* that same sequence, element for element.
C12_FragmentsInRankingOrder ==
    /\ \A s \in Slots :
         (h[s].kind = "chat" /\ h[s].pc = "generating") =>
             /\ Len(h[s].chunks) <= 5
             /\ h[s].context = PromptContext(h[s].chunks)
    /\ (resp.kind = "chat" /\ resp.status = 200) =>
             /\ Len(resp.chunks) <= 5
             /\ Len(resp.context) = Len(resp.chunks)
             /\ \A i \in 1..Len(resp.chunks) :
                  resp.context[i] = Stringify(resp.chunks[i])

\* C12 witness: the collection holds more than 5 fragments and the answer
\* carries 5 of them, not in the order they were stored.
C12_Witness ==
    /\ resp.kind = "chat" /\ resp.status = 200
    /\ Cardinality(collection.points) > 5
    /\ Len(resp.chunks) = 5
    /\ resp.chunks[1].page > resp.chunks[2].page

\* C13: when answer is called while no source is ingested (the registry is
\* empty when the request arrives, when the prompt is assembled and after,
\* no other request being in flight), the prompt sent to the generation
\* service carries no retrieved fragment.
C13_NoSourcesNoFragments ==
    \A s \in Slots :
        (/\ h[s].kind = "chat" /\ h[s].pc = "generating"
         /\ h[s].nsrc = 0
         /\ h[s].listed = <<>>
         /\ globalSourcesContext = <<>>
         /\ \A t \in Slots \ {s} : Free(t)) =>
            h[s].context = <<>>

\* C14: a chat request is answered 200 only when the embedding, the
\* retrieval and the generation all succeeded and the completion text is
\* not empty, and then carries that text; every other answer is an error
\* status and carries neither a response text nor the retrieved sources.
C14_NoPartialAnswer ==
    (resp.kind = "chat" /\ resp.pc = "done") =>
        /\ (resp.status = 200) => (resp.stage = 3 /\ resp.reply # "")
        /\ (resp.status # 200) =>
              /\ resp.status >= 400
              /\ resp.reply = ""
              /\ resp.chunks = <<>>
        /\ (resp.stage < 3) => resp.status # 200

\* C14 witness: the retrieval found fragments and put them in the prompt,
\* the generation failed, and the answer is an error without sources.
C14_Witness ==
    /\ resp.kind = "chat" /\ resp.status >= 400
    /\ resp.stage = 2 /\ resp.context # <<>>
    /\ resp.chunks = <<>> /\ resp.reply = ""

\* The request failed in the vector store: the store was unreachable, or
\* it rejected a collection operation.
StoreFailure(r) == r.down \/ r.err \in {"Not Found", "Bad Request", "Conflict"}

\* C15: a chat request that failed in the vector store is answered 503 and
\* one that was throttled upstream is answered 429, whatever the text of
\* the underlying error.
C15_ChatErrorKinds ==
    (resp.kind = "chat" /\ resp.pc = "done" /\ resp.status # 200) =>
        /\ StoreFailure(resp) => resp.status = 503
        /\ (resp.err = QuotaMsg) => resp.status = 429

\* C16: a request with a missing or empty required field is answered 400
\* before any external service is called, the registry and the collection
\* staying as they were; and 400 is the answer to such requests only.
C16_ValidationIsLocal ==
    [][(resp'.pc = "done" /\ (resp'.invalid \/ resp'.status = 400)) =>
         /\ resp'.invalid
         /\ resp'.status = 400
         /\ resp'.ext = 0
         /\ globalSourcesContext' = globalSourcesContext
         /\ collection' = collection]_vars

\* C16 witness: an embed-url request without its url is answered 400
\* while the registry holds a source.
C16_Witness ==
    /\ resp.kind = "url" /\ resp.status = 400 /\ resp.url = ""
    /\ Len(globalSourcesContext) > 0

C18_EveryRequestAnswered ==
    (resp.kind # "none") => (resp.pc = "done" /\ resp.status >= 200)

\* C19: when an embed-pdf request that received a file has been answered,
\* with success or with the failure of the loading, of the embedding or of
\* the store write, its temporary file has been deleted (nothing runs for
\* the request after its answer).
C19_TempFileDeleted ==
    (resp.kind = "pdf" /\ resp.pc = "done" /\ resp.err \notin UnlinkErrs) =>
        ~resp.tmp

\* C20: for a text of any length the stored excerpt is the first
\* min(length, 200) characters of the text followed by the three-character
\* ellipsis; for a text longer than 200 characters its length is exactly 203.
C20_ExcerptIsCapped ==
    [][\A s \in Slots :
         (h[s].pc = "upsert" /\ h'[s] # h[s]
            /\ Len(globalSourcesContext') = Len(globalSourcesContext) + 1) =>
             LET txt == h[s].text
                 e == globalSourcesContext'[Len(globalSourcesContext')].content
                 k == Len(e) - 3
             IN  /\ k = Min(Len(txt), 200)
                 /\ SubSeq(e, 1, k) = SubSeq(txt, 1, k)
                 /\ SubSeq(e, k + 1, k + 3) = <<".", ".", ".">>
                 /\ (Len(txt) > 200) => (Len(e) = 203)]_vars

\* C20 witness: a text longer than the cap has been registered with an
\* excerpt of cap + 3 characters.
C20_Witness ==
    /\ resp.kind = "text" /\ resp.status = 200 /\ resp.size > 200
    /\ Len(globalSourcesContext) = 1
    /\ Len(globalSourcesContext[1].content) = 203

\* C21: in every reachable state no two entries of the registry have the
\* same id, also when several ingestions complete in the same millisecond.
C21_IdsUnique ==
    \A i, j \in 1..Len(globalSourcesContext) :
        i # j => globalSourcesContext[i].id # globalSourcesContext[j].id

\* The handler's fromDocuments call has resolved: the store answered its
\* upsert with success.
WriteReported(r) == r.pc = "upsert" /\ r.call = "upsert" /\ r.ret = "ok"

\* The handler had no document to store and sent nothing to the store
\* (a PDF without text, index.js): fromDocuments resolved without a write.
NothingToWrite(q) == q.kind = "pdf" /\ q.size = 0 /\ q.ext < 2

C23_NoCallOnMissingCollection ==
    \A s \in Slots :
        h[s].call \in {"upsert", "search"} /\ h[s].ret = "err" /\ ~h[s].down
            => h[s].err # "Not Found"

\* C24: ensureCollection is safe under concurrency: when two requests call
\* it while the collection does not exist (both found it missing and went
\* on to create it, the store being reachable), none of the callers gets
\* an error.
C24_ConcurrentEnsureSucceeds ==
    \A s, t \in Slots :
        /\ s # t
        /\ h[s].kind = "clear" /\ h[s].pc = "make"
        /\ h[t].kind = "clear" /\ h[t].pc = "make"
        /\ ~h[s].down /\ ~h[t].down
        => h[t].ret # "err"

\* ---------------------------------------------------------- SpecRegistry
\* Ingestions and removes, up to two in flight together, and no clear: the
\* registry starts empty, or with one source left by an earlier ingestion,
\* and log records what the requests were answered.
EarlierSource == SourceInfo(0, 0, "text", "T", "", <<"s", "k", "y">>, 0)

EarlierPoints == {[req |-> 0, page |-> 1, type |-> "text", title |-> "T"]}

InitRegistry ==
    /\ server \in Servers
    /\ apiKey = TRUE
    /\ \/ globalSourcesContext = <<>> /\ collection = NoCollection
       \/ /\ globalSourcesContext = <<EarlierSource>>
          /\ collection = [NewCollection(EmbedDim) EXCEPT !.points = EarlierPoints]
    /\ clock = 0
    /\ issued = 0
    /\ h = [s \in Slots |-> Idle]
    /\ resp = Idle
    /\ log = [LogOff EXCEPT !.on = TRUE, !.base = Reqs(globalSourcesContext)]

NextRegistry ==
    \E s \in Slots :
         \/ StartText(s) \/ StartUrl(s) \/ StartPdf(s) \/ StartRemove(s)
         \/ LoadPdf(s) \/ LoadUrl(s)
         \/ EmbedDocuments(s) \/ EmbedTest(s)
         \/ QdrantDown(s) \/ QdrantGetCollections(s)
         \/ QdrantCreateCollection(s) \/ QdrantUpsert(s)
         \/ ResumeUpsert(s)

SpecRegistry == InitRegistry /\ [][NextRegistry]_vars

\* C25: no registry update is lost under concurrency: after any
\* interleaving of n ingestion requests that all succeeded and m remove
\* requests that all succeeded, with no clear, the list length is the
\* initial length + n - m and the list holds exactly the initial and the
\* ingested sources that were not removed.
C25_NoLostUpdate ==
    log.on /\ ~log.failed =>
        /\ Len(globalSourcesContext) =
              Cardinality(log.base) + Cardinality(log.added) - Cardinality(log.removed)
        /\ Reqs(globalSourcesContext) = (log.base \cup log.added) \ log.removed
        /\ log.removed \subseteq log.base \cup log.added

\* A remove has just been answered 200 after one ingestion succeeded, while
\* another ingestion, whose upsert the store has answered, has yet to
\* append its source.
C25_Witness ==
    /\ log.on /\ ~log.failed
    /\ resp.kind = "remove" /\ resp.status = 200
    /\ Cardinality(log.added) = 1 /\ Cardinality(log.removed) = 1
    /\ \E s \in Slots : WriteReported(h[s])

\* C26: every chunk record written to the collection by any ingestion path
\* (text, url, pdf) carries in its payload metadata the type and the title
\* of the source that produced it.
C26_PayloadCarriesTypeAndTitle ==
    \A p \in collection.points : IsIngest(p.type) /\ p.title # ""

\* The line of the system prompt that stands for a registry entry.
SourceLine(e) ==
    <<CASE e.type = "text" -> "TEXT" [] e.type = "url" -> "URL"
        [] e.type = "pdf" -> "PDF", e.title>>

\* C27: the system prompt lists, one line each and in insertion order,
\* exactly the sources that are in the registry at the moment the prompt is
\* assembled, after retrieval has returned: no removed or cleared source is
\* listed and no registered source is missing.
C27_PromptListsRegistry ==
    [][\A s \in Slots :
          h[s].pc = "search" /\ h'[s].pc = "generating" =>
              /\ Len(h'[s].listed) = Len(globalSourcesContext')
              /\ \A i \in 1..Len(globalSourcesContext') :
                    h'[s].listed[i] = SourceLine(globalSourcesContext'[i])]_vars

\* A prompt has been assembled that lists a source, the registry having
\* changed since the chat request arrived.
C27_Witness ==
    \E s \in Slots :
        /\ h[s].kind = "chat" /\ h[s].pc = "generating"
        /\ Len(h[s].listed) >= 1
        /\ h[s].nsrc # Len(h[s].listed)

\* The requests whose sources the registry holds, in the order of the list.
ReqSeq(reg) == [i \in 1..Len(reg) |-> reg[i].req]

\* Position of x in the sequence q (0 when absent).
Pos(q, x) == IF \E i \in 1..Len(q) : q[i] = x
             THEN CHOOSE i \in 1..Len(q) : q[i] = x ELSE 0

NotRemoved(x) == x \notin log.removed

\* C28: list() returns the sources in the order in which they were
\* appended to the registry, and that order is the order in which their
\* store writes completed; a remove keeps the relative order of all
\* remaining entries.
C28_ListInStoreWriteOrder ==
    log.on =>
        /\ ReqSeq(globalSourcesContext) =
              SelectSeq(ReqSeq(<<EarlierSource>>), LAMBDA x : x \in log.base /\ NotRemoved(x))
              \o SelectSeq(log.appends, NotRemoved)
        /\ \A i, j \in 1..Len(globalSourcesContext) :
              LET a == Pos(log.writes, globalSourcesContext[i].req)
                  b == Pos(log.writes, globalSourcesContext[j].req)
              IN  i < j /\ a # 0 /\ b # 0 => a < b

\* C28 as amended: list() returns the sources in the order in which they
\* were appended to the registry, which is the order in which the
\* ingestion handlers resumed after their store writes; a remove keeps the
\* relative order of all remaining entries.
C28_ListInAppendOrder ==
    log.on =>
        ReqSeq(globalSourcesContext) =
            SelectSeq(ReqSeq(<<EarlierSource>>), LAMBDA x : x \in log.base /\ NotRemoved(x))
            \o SelectSeq(log.appends, NotRemoved)

\* A remove has just taken one of three entries: the two that remain, of
\* which one at least was appended by an ingestion, keep their order.
C28_Witness ==
    /\ log.on
    /\ resp.kind = "remove" /\ resp.status = 200
    /\ Len(globalSourcesContext) = 2
    /\ Len(log.appends) >= 2

\* C29: whenever a clear request answers with totalSources: 0, the
\* registry is empty at the moment of that response, also when an
\* ingestion was in flight while the clear was deleting and recreating
\* the collection (the store answering every call of the clear).
C29_ClearAnswerMatchesRegistry ==
    /\ resp.kind = "clear" /\ resp.pc = "done"
    /\ resp.status = 200 /\ resp.total = 0
    /\ ~resp.down /\ ~resp.wfail
    => globalSourcesContext = <<>>

====
